---- MODULE Spec2Model ----
(***************************************************************************)
(* Model of generate_rev_data.py: a command-line tool that samples         *)
(* revision ids of a wiki every 10,000,000 ids, asks the MediaWiki API for *)
(* their timestamps in batches of 10, prints "<revid> <timestamp>" lines   *)
(* and retries the ids the API reported bad, each incremented by one.      *)
(*                                                                         *)
(* Python values are tagged records [t, v]: None, str (a sequence of       *)
(* one-character strings) and int.  The remote service is a fixed table    *)
(* of missing revisions (badRun) plus per-request faults.                  *)
(***************************************************************************)
EXTENDS Integers, Sequences, FiniteSets, TLC

VARIABLES
    argv,        \* the command line, as getopt sees it
    badRun,      \* the wiki: badRun[k] ids starting at k*STEP do not exist
    pc,          \* position of the process
    args,        \* the args dict of process_opts / check_opts
    revrange,    \* do_revrange: what is left of the revrange parameter
    batch,       \* do_revrange: the current batch (list of str)
    redo,        \* do_revrange: bad ids collected in the current pass
    stdout,      \* lines printed, <<revid, timestamp>>
    stderr,      \* messages written to standard error
    status,      \* exit status of the process, -1 while it runs
    exc,         \* the uncaught exception that ended the process, or "none"
    nMaxReq,     \* max-revision requests issued
    nBatchReq,   \* batch requests issued
    slept,       \* a time.sleep(5) happened since the last batch request
    lastGap,     \* "na" / "paused" / "unpaused": what separated the last two batch requests
    resp,        \* the last response of the remote service
    lastOut,     \* the lines display_revinfo printed for the last batch
    pass,        \* number of the current pass, 0 is the initial one
    passList,    \* the list the current pass was started with (as str)
    queried,     \* the batches requested so far in the current pass
    reported,    \* the bad ids the remote reported so far in the current pass
    prevReported,\* the bad ids the remote reported in the previous pass
    wellFormed   \* every response so far was a 200 with the body the wiki dictates

vars == <<argv, badRun, pc, args, revrange, batch, redo, stdout, stderr, status,
          exc, nMaxReq, nBatchReq, slept, lastGap, resp, lastOut, pass, passList,
          queried, reported, prevReported, wellFormed>>

(***************************************************************************)
(* Bounds of the model and constants of the program.                       *)
(***************************************************************************)
MaxBase == 2
MaxRun == 2
STEP == 10000000
BATCH == 10

(***************************************************************************)
(* Python values.                                                          *)
(***************************************************************************)
None == [t |-> "None", v |-> <<>>]
PyS(s) == [t |-> "str", v |-> s]
PyI(n) == [t |-> "int", v |-> n]

Digits == <<"0", "1", "2", "3", "4", "5", "6", "7", "8", "9">>
DigitSet == {Digits[i] : i \in 1..10}
\* "sup2" stands for the one character U+00B2 (superscript two): str.isdigit()
\* accepts it, int() does not.
IsDigitChars == DigitSet \cup {"sup2"}

DigitVal(c) == (CHOOSE i \in 1..10 : Digits[i] = c) - 1

RECURSIVE Str(_)
\* str(n) for an int n >= 0
Str(n) == IF n < 10 THEN <<Digits[n + 1]>> ELSE Append(Str(n \div 10), Digits[(n % 10) + 1])

RECURSIVE ParseDec(_)
\* value of a non-empty sequence of decimal digits
ParseDec(s) ==
    IF Len(s) = 1 THEN DigitVal(s[1])
    ELSE 10 * ParseDec(SubSeq(s, 1, Len(s) - 1)) + DigitVal(s[Len(s)])

\* str.isdigit(): non-empty and every character is a digit character
IsDigit(s) == Len(s) > 0 /\ \A i \in 1..Len(s) : s[i] \in IsDigitChars

\* int(x): [exc, val]
PyInt(x) ==
    IF x.t = "None" THEN [exc |-> "TypeError", val |-> 0]
    ELSE IF x.t = "int" THEN [exc |-> "none", val |-> x.v]
    ELSE IF Len(x.v) > 0 /\ \A i \in 1..Len(x.v) : x.v[i] \in DigitSet
         THEN [exc |-> "none", val |-> ParseDec(x.v)]
         ELSE [exc |-> "ValueError", val |-> 0]

\* str(x) for an int or a str
PyStr(x) == IF x.t = "int" THEN Str(x.v) ELSE x.v

\* truth value of None or a str
Truthy(x) == x.t = "str" /\ Len(x.v) > 0

(***************************************************************************)
(* Small helpers on sequences.                                             *)
(***************************************************************************)
Take(s, n) == SubSeq(s, 1, IF Len(s) < n THEN Len(s) ELSE n)
Drop(s, n) == SubSeq(s, n + 1, Len(s))
Reverse(s) == [i \in 1..Len(s) |-> s[Len(s) + 1 - i]]

RECURSIVE Flatten(_)
Flatten(ss) == IF ss = <<>> THEN <<>> ELSE Head(ss) \o Flatten(Tail(ss))

(***************************************************************************)
(* The command line.  An option that is absent is None; a given option     *)
(* carries its value as a str.  `extra` is the one further thing on the    *)
(* command line, if any.                                                   *)
(***************************************************************************)
DomainArgs == {None, PyS(<<>>), PyS(<<"w">>)}
StartArgs == {None, PyS(<<>>), PyS(<<"a", "b", "c">>), PyS(<<"sup2">>),
              PyS(<<"0">>), PyS(<<"1">>)}
EndArgs == {None, PyS(<<>>), PyS(<<"a", "b", "c">>), PyS(<<"sup2">>), PyS(<<"1">>),
            PyS(Str(25000000)), PyS(Str(100000001)), PyS(Str(110000001))}
ExtraArgs == {"none", "dryrun", "verbose", "help", "badopt", "remainder"}

\* get_default_opts
get_default_opts ==
    [domain |-> None, start_rev |-> PyS(<<"1">>), end_rev |-> None,
     dryrun |-> FALSE, verbose |-> FALSE]

\* process_opts up to the call of check_opts: [err, args]
ParseOpts(av) ==
    LET d == get_default_opts
        a == [domain    |-> IF av.domain.t = "None" THEN d.domain ELSE av.domain,
              start_rev |-> IF av.startrev.t = "None" THEN d.start_rev ELSE av.startrev,
              end_rev   |-> IF av.endrev.t = "None" THEN d.end_rev ELSE av.endrev,
              dryrun    |-> av.extra = "dryrun",
              verbose   |-> av.extra = "verbose"]
    IN  IF av.extra = "badopt" THEN [err |-> "Unknown option specified", args |-> d]
        ELSE IF av.extra = "help" THEN [err |-> "Help for this script", args |-> a]
        ELSE IF av.extra = "remainder" THEN [err |-> "Unknown option(s) specified", args |-> a]
        ELSE [err |-> "none", args |-> a]

\* the endrev test of check_opts: given and not a number
EndRevRejected(a) == Truthy(a.end_rev) /\ ~IsDigit(a.end_rev.v)

\* check_opts before it resolves end_rev: the usage message, or "none"
CheckOptsError(a) ==
    IF ~Truthy(a.domain) THEN "domain must be specified"
    ELSE IF ~IsDigit(a.start_rev.v) THEN "startrev must be a number"
    ELSE IF EndRevRejected(a) THEN "endrev must be a number"
    ELSE "none"

\* check_opts line 65: end_rev has to be asked from the wiki
NeedsMaxRev(a) == ~Truthy(a.end_rev)

(***************************************************************************)
(* The remote service.                                                     *)
(***************************************************************************)
Forever == STEP
RunLengths == (0..MaxRun) \cup {Forever}

\* revision r does not exist on the wiki
Missing(r) == (r \div STEP) < MaxBase /\ (r % STEP) < badRun[r \div STEP]

Timestamp(r) == 2001 + (r \div STEP)

NoResp == [status |-> 0, kind |-> "none", hasBad |-> FALSE, bad |-> <<>>,
           hasPages |-> FALSE, pages |-> <<>>, revs |-> <<>>]

Fault(st, k) == [NoResp EXCEPT !.status = st, !.kind = k]

\* the body the wiki dictates for a batch of ids (str), listed in request
\* order or in the reverse order
WikiAnswer(b, rev) ==
    LET ids == [i \in 1..Len(b) |-> ParseDec(b[i])]
        o == IF rev THEN Reverse(ids) ELSE ids
        IsBad(r) == Missing(r)
        IsGood(r) == ~Missing(r)
        bad == SelectSeq(o, IsBad)
        good == SelectSeq(o, IsGood)
    IN  [status |-> 200, kind |-> "query",
         hasBad |-> bad # <<>>,
         bad |-> [i \in 1..Len(bad) |-> Str(bad[i])],
         hasPages |-> good # <<>>,
         pages |-> [i \in 1..Len(good) |-> <<good[i], Timestamp(good[i])>>],
         revs |-> <<>>]

BatchFaults ==
    {Fault(-1, "raise"), Fault(500, "none"), Fault(200, "garbage"),
     Fault(200, "noquery"), Fault(200, "query")}

BatchResponses(b) == {WikiAnswer(b, FALSE), WikiAnswer(b, TRUE)} \cup BatchFaults

IsWikiAnswer(r, b) == r \in {WikiAnswer(b, FALSE), WikiAnswer(b, TRUE)}

MaxRevIds == {25000000, 110000001}

\* responses to the max-revision query; revs is the list of the revision
\* lists of the allrevisions entries
MaxRevResponses ==
    {Fault(-1, "raise"), Fault(500, "none"), Fault(200, "garbage"), Fault(200, "noquery")}
    \cup {[Fault(200, "query") EXCEPT !.revs = e] :
            e \in {<<>>, <<<<25000000, 110000001>>>>, <<<<25000000>>, <<110000001>>>>}}
    \cup {[Fault(200, "query") EXCEPT !.revs = <<<<n>>>>] : n \in MaxRevIds}

(***************************************************************************)
(* Decoding the responses.  A returned Python value is a record            *)
(* [t |-> "None"], [t |-> "dict", d] or [t |-> "tuple", d, bad].           *)
(***************************************************************************)
RetNone == [t |-> "None", d |-> <<>>, bad |-> <<>>]
RetDict(m) == [t |-> "dict", d |-> m, bad |-> <<>>]
RetTuple(m, b) == [t |-> "tuple", d |-> m, bad |-> b]

\* A dict is the sequence of its <<key, value>> items in insertion order.
DictKeys(d) == {d[i][1] : i \in 1..Len(d)}
DictGet(d, k) == d[CHOOSE i \in 1..Len(d) : d[i][1] = k][2]

RECURSIVE DictOf(_)
\* the dict built by the loop over the pages: revid_timestamp[revid] = timestamp
\* keeps the place of a key already present and replaces its value
DictOf(pages) ==
    IF pages = <<>> THEN <<>>
    ELSE LET init == DictOf(SubSeq(pages, 1, Len(pages) - 1))
             item == pages[Len(pages)]
         IN  IF item[1] \in DictKeys(init)
             THEN [i \in 1..Len(init) |-> IF init[i][1] = item[1] THEN item ELSE init[i]]
             ELSE Append(init, item)

\* get_revinfo_from_json
get_revinfo_from_json(r) ==
    IF r.kind # "query" THEN RetNone
    ELSE LET badrevs == IF r.hasBad THEN r.bad ELSE <<>>
         IN  IF ~r.hasPages THEN RetDict(<<>>)
             ELSE RetTuple(DictOf(r.pages), badrevs)

\* the assignment "revinfo, badrevs = value": the exception it raises, or "none"
Unpack2(val) ==
    IF val.t = "None" THEN "TypeError"
    ELSE IF val.t = "dict" THEN (IF Len(val.d) = 2 THEN "none" ELSE "ValueError")
    ELSE "none"

\* get_revinfo: [exc, val, err]; err is what it writes to standard error
get_revinfo(r) ==
    IF r.kind = "raise" THEN [exc |-> "ConnectionError", val |-> RetNone, err |-> <<>>]
    ELSE IF r.status # 200
         THEN [exc |-> "none", val |-> RetNone, err |-> <<"failed to get revid">>]
    ELSE LET got == get_revinfo_from_json(r)
         IN  [exc |-> Unpack2(got), val |-> got, err |-> <<>>]

\* get_revid_from_json: None or the revid
get_revid_from_json(r) ==
    IF r.kind # "query" THEN None
    ELSE LET revisions == Flatten(r.revs)
         IN  IF Len(revisions) # 1 THEN None ELSE PyI(revisions[1])

\* get_max_rev: [exc, val, err]
get_max_rev(r) ==
    IF r.kind = "raise" THEN [exc |-> "ConnectionError", val |-> None, err |-> <<>>]
    ELSE IF r.status # 200
         THEN [exc |-> "none", val |-> None, err |-> <<"failed to get revid">>]
    ELSE [exc |-> "none", val |-> get_revid_from_json(r), err |-> <<>>]

RECURSIVE SortedSeq(_)
\* sorted(list(keys)) for a set of ints
SortedSeq(S) ==
    IF S = {} THEN <<>>
    ELSE LET m == CHOOSE x \in S : \A y \in S : x <= y
         IN  <<m>> \o SortedSeq(S \ {m})

\* display_revinfo without the sort: the lines in the order of the dict
display_revinfo_unsorted(revinfo) == revinfo

\* display_revinfo: the lines it prints
display_revinfo(revinfo) ==
    LET revids == SortedSeq(DictKeys(revinfo))
    IN  [i \in 1..Len(revids) |-> <<revids[i], DictGet(revinfo, revids[i])>>]

RECURSIVE PyRange(_, _, _)
\* range(a, b, step) for step > 0, as a list of ints
PyRange(a, b, step) == IF a >= b THEN <<>> ELSE <<PyI(a)>> \o PyRange(a + step, b, step)

\* [str(revid) for revid in revrange[:10]]
FirstBatch(rr) == LET h == Take(rr, BATCH) IN [i \in 1..Len(h) |-> PyStr(h[i])]

\* revrange[11:]
RestRange_skip(rr) == Drop(rr, BATCH + 1)

\* revrange[10:]
RestRange(rr) == Drop(rr, BATCH)

\* [str(int(rev) + 1) for rev in redo]
NewRange(rd) == [i \in 1..Len(rd) |-> PyS(Str(PyInt(PyS(rd[i])).val + 1))]

(***************************************************************************)
(* The process.                                                            *)
(***************************************************************************)
Init ==
    /\ argv \in [domain : DomainArgs, startrev : StartArgs, endrev : EndArgs,
                 extra : ExtraArgs]
    /\ badRun \in [0..(MaxBase - 1) -> RunLengths]
    /\ pc = "start"
    /\ args = get_default_opts
    /\ revrange = <<>>
    /\ batch = <<>>
    /\ redo = <<>>
    /\ stdout = <<>>
    /\ stderr = <<>>
    /\ status = -1
    /\ exc = "none"
    /\ nMaxReq = 0
    /\ nBatchReq = 0
    /\ slept = FALSE
    /\ lastGap = "na"
    /\ resp = NoResp
    /\ lastOut = <<>>
    /\ pass = 0
    /\ passList = <<>>
    /\ queried = <<>>
    /\ reported = <<>>
    /\ prevReported = <<>>
    /\ wellFormed = TRUE

\* an exception nobody catches ends the process with a traceback and status 1
Uncaught(e) ==
    /\ pc' = "crashed"
    /\ exc' = e
    /\ status' = 1

\* process_opts and the checks of check_opts (lines 69-104, 55-64): usage() exits
\* with status 1, otherwise go on to resolve end_rev or to the main loop
ProcessOpts ==
    /\ pc = "start"
    /\ LET p == ParseOpts(argv)
           e == IF p.err # "none" THEN p.err ELSE CheckOptsError(p.args)
       IN  /\ args' = p.args
           /\ IF e # "none"
              THEN /\ pc' = "exited"
                   /\ status' = 1
                   /\ stderr' = <<e, "Usage">>
              ELSE /\ pc' = IF NeedsMaxRev(p.args) THEN "get_max_rev" ELSE "main"
                   /\ UNCHANGED <<status, stderr>>
    /\ UNCHANGED <<argv, badRun, revrange, batch, redo, stdout, exc, nMaxReq,
                   nBatchReq, slept, lastGap, resp, lastOut, pass, passList,
                   queried, reported, prevReported, wellFormed>>

\* check_opts lines 65-66: args['end_rev'] = get_max_rev(args['domain'])
GetMaxRev ==
    /\ pc = "get_max_rev"
    /\ \E r \in MaxRevResponses :
          LET g == get_max_rev(r)
          IN  /\ nMaxReq' = nMaxReq + 1
              /\ resp' = r
              /\ stderr' = stderr \o g.err
              /\ wellFormed' = (wellFormed /\ g.val.t = "int")
              /\ IF g.exc # "none"
                 THEN Uncaught(g.exc) /\ UNCHANGED args
                 ELSE /\ args' = [args EXCEPT !.end_rev = g.val]
                      /\ pc' = "main"
                      /\ UNCHANGED <<exc, status>>
    /\ UNCHANGED <<argv, badRun, revrange, batch, redo, stdout, nBatchReq, slept,
                   lastGap, lastOut, pass, passList, queried, reported,
                   prevReported>>

\* do_main lines 254-257 and the entry of do_revrange (lines 235-236)
StartMain ==
    /\ pc = "main"
    /\ LET s == PyInt(args.start_rev)
           e == PyInt(args.end_rev)
           rr == PyRange(s.val, e.val, STEP)
       IN  /\ stdout' = IF args.verbose THEN <<<<"running with arguments:">>>> ELSE <<>>
           /\ IF s.exc # "none"
              THEN Uncaught(s.exc) /\ UNCHANGED <<revrange, batch, passList>>
              ELSE IF e.exc # "none"
              THEN Uncaught(e.exc) /\ UNCHANGED <<revrange, batch, passList>>
              ELSE /\ revrange' = rr
                   /\ batch' = FirstBatch(rr)
                   /\ passList' = [i \in 1..Len(rr) |-> PyStr(rr[i])]
                   /\ pc' = IF FirstBatch(rr) = <<>> THEN "pass_end" ELSE "revrange"
                   /\ UNCHANGED <<exc, status>>
    /\ UNCHANGED <<argv, badRun, args, redo, stderr, nMaxReq, nBatchReq, slept,
                   lastGap, resp, lastOut, pass, queried, reported, prevReported,
                   wellFormed>>

\* one turn of the loop of do_revrange (lines 237-245): the request, the
\* decoding, the two unpackings, redo.extend, display_revinfo, the next batch
\* and the pause before it
DoBatch ==
    /\ pc = "revrange"
    /\ batch # <<>>
    /\ \E r \in BatchResponses(batch) :
          LET g == get_revinfo(r)
              e == IF g.exc # "none" THEN g.exc ELSE Unpack2(g.val)
              rest == RestRange(revrange)
              out == display_revinfo(g.val.d)
          IN  /\ nBatchReq' = nBatchReq + 1
              /\ lastGap' = IF nBatchReq = 0 THEN "na"
                            ELSE IF slept THEN "paused" ELSE "unpaused"
              /\ resp' = r
              /\ queried' = Append(queried, batch)
              /\ reported' = reported \o (IF r.hasBad THEN r.bad ELSE <<>>)
              /\ wellFormed' = (wellFormed /\ IsWikiAnswer(r, batch))
              /\ stderr' = stderr \o g.err
              /\ IF e # "none"
                 THEN /\ Uncaught(e)
                      /\ slept' = FALSE
                      /\ UNCHANGED <<redo, stdout, lastOut, revrange, batch>>
                 ELSE /\ redo' = redo \o g.val.bad
                      /\ lastOut' = out
                      /\ stdout' = stdout \o out
                      /\ revrange' = rest
                      /\ batch' = FirstBatch(rest)
                      /\ slept' = (FirstBatch(rest) # <<>>)
                      /\ pc' = IF FirstBatch(rest) = <<>> THEN "pass_end" ELSE "revrange"
                      /\ UNCHANGED <<exc, status>>
    /\ UNCHANGED <<argv, badRun, args, nMaxReq, pass, passList, prevReported>>

\* do_main lines 258-262 once do_revrange has returned redo: the pause
\* before the first retry pass, the incremented list and the entry of the
\* next do_revrange, or the end of the program
EndPass ==
    /\ pc = "pass_end"
    /\ IF redo = <<>>
       THEN /\ pc' = "done"
            /\ status' = 0
            /\ UNCHANGED <<revrange, batch, redo, slept, pass, passList, queried,
                           reported, prevReported>>
       ELSE LET new_range == NewRange(redo)
            IN  /\ slept' = (slept \/ pass = 0)
                /\ revrange' = new_range
                /\ redo' = <<>>
                /\ batch' = FirstBatch(new_range)
                /\ pass' = pass + 1
                /\ passList' = [i \in 1..Len(new_range) |-> PyStr(new_range[i])]
                /\ queried' = <<>>
                /\ prevReported' = reported
                /\ reported' = <<>>
                /\ pc' = "revrange"
                /\ UNCHANGED status
    /\ UNCHANGED <<argv, badRun, args, stdout, stderr, exc, nMaxReq, nBatchReq,
                   lastGap, resp, lastOut, wellFormed>>

Next == ProcessOpts \/ GetMaxRev \/ StartMain \/ DoBatch \/ EndPass

Spec == Init /\ [][Next]_vars

(***************************************************************************)
(* Properties.                                                             *)
(***************************************************************************)
Halted == pc \in {"done", "exited", "crashed"}

\* a batch request has been answered and the answer is the last response
BatchAnswered == nBatchReq > 0

\* C1: whatever the remote answers to the batch requests (a non-200 status,
\* an unparsable or wrongly shaped body, or a valid body), no exception
\* escapes: the run never ends in an uncaught-exception state.
CE_C1_NoExceptionEscapes ==
    (BatchAnswered /\ resp.kind # "raise") => (exc = "none" /\ pc # "crashed")

\* C2: a 200 response to a batch request without a "pages" section (in
\* particular with neither "pages" nor "badrevids") raises nothing and the
\* sampling loop goes on.
CE_C2_NoPagesNoCrash ==
    (BatchAnswered /\ resp.status = 200 /\ resp.kind = "query" /\ ~resp.hasPages)
        => (exc = "none" /\ pc # "crashed")

\* C3: a batch response with a "badrevids" section and no pages yields the
\* empty mapping and the bad ids, which are added to the redo list of the
\* current pass.
CE_C3_BadOnlyCollected ==
    (BatchAnswered /\ resp.status = 200 /\ resp.kind = "query" /\ resp.hasBad
        /\ Len(resp.bad) = 2 /\ ~resp.hasPages)
        => (exc = "none" /\ pc # "crashed" /\ redo = reported)

\* [str(int(b) + 1) for b in bads], stated on numbers
Incremented(bads) == [i \in 1..Len(bads) |-> Str(ParseDec(bads[i]) + 1)]

\* C4: the ids queried in a retry pass are exactly the ids b+1 for every id b
\* the remote reported bad in the pass before, in the same order, and no
\* reported bad id is dropped: with a remote that answers as the wiki
\* dictates the run does not end while reported bad ids await their retry.
CE_C4_RetryExact ==
    /\ (pass >= 1 /\ pc \in {"revrange", "pass_end", "done", "crashed"})
          => (passList = Incremented(prevReported)
              /\ Flatten(queried) = SubSeq(passList, 1, Len(Flatten(queried))))
    /\ (wellFormed /\ Halted) => reported = <<>>

\* the initial pass is under way or over: the range has been built
RangeBuilt == pc \in {"revrange", "pass_end", "done"} \/ (pc = "crashed" /\ nBatchReq > 0)

StartOf(a) == ParseDec(a.start_rev.v)
EndOf(a) == IF a.end_rev.t = "int" THEN a.end_rev.v ELSE ParseDec(a.end_rev.v)

CE_C6_PauseBetweenRequests == lastGap # "unpaused"

\* C7: if every response is the well-formed one and every rejected id has an
\* accepted successor, the run ends normally, after the first pass that
\* produced no bad ids.
NoIdBadForever == \A k \in DOMAIN badRun : badRun[k] # Forever

CE_C7_EndsAfterCleanPass ==
    (wellFormed /\ NoIdBadForever /\ BatchAnswered /\ Halted)
        => (pc = "done" /\ redo = <<>> /\ reported = <<>>)

\* what the command line must be rejected for
IsNonNegInt(x) == Len(x.v) > 0 /\ \A i \in 1..Len(x.v) : x.v[i] \in DigitSet

ConfigError(av) ==
    \/ av.domain.t = "None" \/ Len(av.domain.v) = 0
    \/ (av.startrev.t = "str" /\ ~IsNonNegInt(av.startrev))
    \/ (av.endrev.t = "str" /\ ~IsNonNegInt(av.endrev))
    \/ av.extra \in {"badopt", "remainder"}

\* C8: a configuration error ends the program with status 1 before any
\* network request.
CE_C8_FailFast ==
    ConfigError(argv) =>
        /\ nMaxReq = 0 /\ nBatchReq = 0
        /\ pc # "start" => (pc = "exited" /\ status = 1)

\* C9: when endrev is not supplied and the max-revision lookup resolves
\* nothing, the program reports a configuration failure and does not go on
\* with the unresolved value.
CE_C9_UnresolvedEndSurfaced ==
    (nMaxReq > 0 /\ nBatchReq = 0 /\ resp.kind # "raise" /\ args.end_rev.t = "None")
        => (pc = "exited" /\ status = 1)

\* C10: every revision of a batch's mapping is printed on one line
\* <revid> <timestamp>, the lines of a batch in ascending revid order whatever
\* the order of the response, after the lines of the batches before it.
Thm_C10_BatchOutputSorted ==
    (BatchAnswered /\ pc \in {"revrange", "pass_end", "done"}) =>
        /\ Len(lastOut) <= Len(stdout)
        /\ SubSeq(stdout, Len(stdout) - Len(lastOut) + 1, Len(stdout)) = lastOut
        /\ \A i, j \in 1..Len(lastOut) : i < j => lastOut[i][1] < lastOut[j][1]
        /\ Len(lastOut) = Len(resp.pages)
        /\ \A i \in 1..Len(resp.pages) :
              Cardinality({j \in 1..Len(lastOut) : lastOut[j] = resp.pages[i]}) = 1

Wit_C10_ReversedAnswer ==
    /\ BatchAnswered /\ pc \in {"revrange", "pass_end", "done"}
    /\ ~args.verbose
    /\ Len(resp.pages) >= 2 /\ resp.pages[1][1] > resp.pages[2][1]
    /\ Len(stdout) > Len(lastOut)
    /\ stdout[Len(stdout) - Len(lastOut)][1] > lastOut[1][1]

====
